---- MODULE Spec2Model ----
(***************************************************************************)
(* The consistent hashing ring of docker_client.py: ConsistentNode,        *)
(* ConsistentHashing.Hash, ConsistentHashing.Ring and the ConsistentHashing *)
(* facade.  One action per public operation; every action is the whole      *)
(* method, including the growth that put_server may run.                    *)
(***************************************************************************)
EXTENDS Integers, FiniteSets, TLC

\* ---------------------------------------------------------------- bounds
\* Largest capacity the ring is constructed with.
MaxInitCapacity == 3
\* Number of put calls; the k-th put inserts the node with id k.
MaxPuts == 3
\* Number of put calls in the runs that call nothing but put.
MaxPutsOnly == 4
\* Number of update, delete and soft_delete calls.
MaxUpdates == 2
\* md5 digests are drawn from 0..MaxDigest.
MaxDigest == 4

Ids == 1..(IF MaxPutsOnly > MaxPuts THEN MaxPutsOnly ELSE MaxPuts)
Digests == 0..MaxDigest
\* Marks a string whose md5 digest has not been computed yet.
Unknown == -1
\* Stands for a request that is None.
NoneRequest == -2

VARIABLES
    ring,          \* Ring.__ring: slot array, indices 0..len(ring)-1
    capacity,      \* Ring.capacity
    md5,           \* the digests of str(node) computed so far
    n_put,         \* number of put calls made
    n_upd,         \* number of update, delete and soft_delete calls made
    op,            \* the last call: its name and arguments
    ret_bool,      \* the value returned by the last update/delete/soft_delete
    ret_node,      \* the value returned by the last get_request_server
    raised         \* whether the last call raised an exception

vars == <<ring, capacity, md5, n_put, n_upd, op, ret_bool, ret_node, raised>>

\* ------------------------------------------------------------ ConsistentNode
\* Python's None.  Real nodes have node >= 1 and obj >= 1.
None == [node |-> 0, is_down |-> FALSE, obj |-> 0]

\* ConsistentNode.__init__: is_down starts False.  obj is the identity of the
\* Python object (what the `is` operator compares).
ConsistentNode(_node, o) == [node |-> _node, is_down |-> FALSE, obj |-> o]

\* ConsistentNode.__str__: f'{self.node} {self.is_down}'
str(n) == <<n.node, n.is_down>>

Strs == Ids \X BOOLEAN

\* ------------------------------------------------------------------- Hash
\* Hash.find_index on a value whose md5 digest is d.
find_index(d, final_capacity) == d % final_capacity

\* Hash.find_index, lines 55-56: a value that is None raises ValueError.
find_index_raises(_val) == _val = NoneRequest

\* ------------------------------------------------------------------- Ring
len(_ring) == Cardinality(DOMAIN _ring)

\* [None] * n
NoneList(n) == [i \in 0..(n - 1) |-> None]

\* list.append
append(_ring, _node) ==
    [i \in 0..len(_ring) |-> IF i < len(_ring) THEN _ring[i] ELSE _node]

\* `a is b` for a slot value a and a node b
Is(a, b) == a # None /\ a.node = b.node /\ a.obj = b.obj

\* Ring.should_expand
should_expand(_ring) == \A i \in DOMAIN _ring : _ring[i] # None

\* expand_ring, body of the loop over the old array (lines 147-160).  On a
\* collision the inner loop has no break: val is written to every empty slot
\* of idx..n_capacity-1.  Lines 157-160 only write n_ring[idx] when it is
\* None, and it is not None in this branch, so they change nothing.
rehash_one(n_ring, val, idx, n_capacity) ==
    IF n_ring[idx] = None
    THEN [n_ring EXCEPT ![idx] = val]
    ELSE [i \in 0..(n_capacity - 1) |->
            IF i >= idx /\ n_ring[i] = None THEN val ELSE n_ring[i]]

RECURSIVE rehash(_, _, _, _, _)
\* expand_ring, the loop `for val in self.__ring` from position k on.
rehash(n_ring, _ring, k, n_capacity, h) ==
    IF k >= len(_ring)
    THEN n_ring
    ELSE rehash(rehash_one(n_ring, _ring[k],
                           find_index(h[str(_ring[k])], n_capacity), n_capacity),
                _ring, k + 1, n_capacity, h)

RECURSIVE rehash_occupied(_, _, _, _, _)
\* The loop of expand_ring, skipping the elements that are None.
rehash_occupied(n_ring, _ring, k, n_capacity, h) ==
    IF k >= len(_ring)
    THEN n_ring
    ELSE IF _ring[k] = None
    THEN rehash_occupied(n_ring, _ring, k + 1, n_capacity, h)
    ELSE rehash_occupied(rehash_one(n_ring, _ring[k],
                                    find_index(h[str(_ring[k])], n_capacity),
                                    n_capacity),
                         _ring, k + 1, n_capacity, h)

\* Ring.expand_ring without the should_expand test: it rehashes the occupied
\* slots into a larger array whenever it is called.
expand_ring_unconditional(_ring, _capacity, h) ==
    LET n_capacity == _capacity * 2 + 1
    IN  [ring |-> rehash_occupied(NoneList(n_capacity), _ring, 0, n_capacity, h),
         capacity |-> n_capacity]

\* Ring.expand_ring sizing the new array from len(self.__ring), which counts
\* the appended node, instead of self.capacity.
expand_ring_len(_ring, _capacity, h) ==
    IF should_expand(_ring)
    THEN LET n_capacity == len(_ring) * 2 + 1
         IN  [ring |-> rehash(NoneList(n_capacity), _ring, 0, n_capacity, h),
              capacity |-> n_capacity]
    ELSE [ring |-> _ring, capacity |-> _capacity]

\* Ring.expand_ring
expand_ring(_ring, _capacity, h) ==
    IF should_expand(_ring)
    THEN LET n_capacity == _capacity * 2 + 1
         IN  [ring |-> rehash(NoneList(n_capacity), _ring, 0, n_capacity, h),
              capacity |-> n_capacity]
    ELSE [ring |-> _ring, capacity |-> _capacity]

\* Ring.put_server without the test of line 107: the home slot is written
\* whether it is empty or not.
put_server_overwrite(_ring, _capacity, _node, h) ==
    LET c_index == find_index(h[str(_node)], len(_ring))
    IN  IF _node = None
        THEN [ring |-> _ring, capacity |-> _capacity]
        ELSE [ring |-> [_ring EXCEPT ![c_index] = _node], capacity |-> _capacity]

\* Ring.put_server.  The home index is taken modulo len(self.__ring).
put_server(_ring, _capacity, _node, h) ==
    LET c_index == find_index(h[str(_node)], len(_ring))
        empties == {i \in c_index..(len(_ring) - 1) : _ring[i] = None}
    IN  IF _node = None
        THEN [ring |-> _ring, capacity |-> _capacity]
        ELSE IF _ring[c_index] = None
        THEN [ring |-> [_ring EXCEPT ![c_index] = _node], capacity |-> _capacity]
        ELSE IF empties # {}
        THEN [ring |-> [_ring EXCEPT ![CHOOSE i \in empties :
                                          \A j \in empties : i <= j] = _node],
              capacity |-> _capacity]
        \* c_idx == len(ring): the loop over range(0, c_index) acts only for
        \* i = c_index - 1
        ELSE IF c_index >= 1 /\ _ring[c_index - 1] # None
        THEN expand_ring(append(_ring, _node), _capacity, h)
        ELSE [ring |-> _ring, capacity |-> _capacity]

\* Ring.get_server for a request whose md5 digest is d.  Both loops test
\* self.__ring[idx], which is None once the first test has failed.
get_server(_ring, _capacity, d) ==
    LET idx == find_index(d, _capacity)
    IN  IF _ring[idx] # None THEN _ring[idx] ELSE None

\* Ring.update writing self.__ring[expected_idx] instead of self.__ring[i]
\* (the index reuse of get_server).
update_stale_index(_ring, _capacity, _node, n_node, h) ==
    LET expected_idx == find_index(h[str(_node)], _capacity)
    IN  IF \/ _ring[expected_idx] = None
           \/ ~Is(_ring[expected_idx], _node)
           \/ n_node # None
        THEN IF \E i \in 0..(_capacity - 1) : Is(_ring[i], _node)
             THEN [ring |-> [_ring EXCEPT ![expected_idx] = n_node], ret |-> TRUE]
             ELSE [ring |-> _ring, ret |-> FALSE]
        ELSE [ring |-> _ring, ret |-> FALSE]

\* Ring.update with `is not` for `is` in the two scans.
update_is_not(_ring, _capacity, _node, n_node, h) ==
    LET expected_idx == find_index(h[str(_node)], _capacity)
        hits1 == {i \in expected_idx..(_capacity - 1) : ~Is(_ring[i], _node)}
        hits2 == {i \in 0..(expected_idx - 1) : ~Is(_ring[i], _node)}
    IN  IF \/ _ring[expected_idx] = None
           \/ ~Is(_ring[expected_idx], _node)
           \/ n_node # None
        THEN IF hits1 # {}
             THEN [ring |-> [_ring EXCEPT ![CHOOSE i \in hits1 :
                                              \A j \in hits1 : i <= j] = n_node],
                   ret |-> TRUE]
             ELSE IF hits2 # {}
             THEN [ring |-> [_ring EXCEPT ![CHOOSE i \in hits2 :
                                              \A j \in hits2 : i <= j] = n_node],
                   ret |-> TRUE]
             ELSE [ring |-> _ring, ret |-> FALSE]
        ELSE [ring |-> _ring, ret |-> FALSE]

\* Ring.update, returning the new slot array and the bool
update(_ring, _capacity, _node, n_node, h) ==
    LET expected_idx == find_index(h[str(_node)], _capacity)
        hits1 == {i \in expected_idx..(_capacity - 1) : Is(_ring[i], _node)}
        hits2 == {i \in 0..(expected_idx - 1) : Is(_ring[i], _node)}
    IN  IF \/ _ring[expected_idx] = None
           \/ ~Is(_ring[expected_idx], _node)
           \/ n_node # None
        THEN IF hits1 # {}
             THEN [ring |-> [_ring EXCEPT ![CHOOSE i \in hits1 :
                                              \A j \in hits1 : i <= j] = n_node],
                   ret |-> TRUE]
             ELSE IF hits2 # {}
             THEN [ring |-> [_ring EXCEPT ![CHOOSE i \in hits2 :
                                              \A j \in hits2 : i <= j] = n_node],
                   ret |-> TRUE]
             ELSE [ring |-> _ring, ret |-> FALSE]
        ELSE [ring |-> _ring, ret |-> FALSE]

\* Ring.delete
delete(_ring, _capacity, _node, h) == update(_ring, _capacity, _node, None, h)

\* Ring.soft_delete; o is the identity of the ConsistentNode it constructs
soft_delete(_ring, _capacity, _node, o, h) ==
    LET n_node == [node |-> _node.node, is_down |-> TRUE, obj |-> o]
    IN  update(_ring, _capacity, _node, n_node, h)

\* ----------------------------------------------------------------- facade
\* ConsistentHashing.put
put(_ring, _capacity, node, h) ==
    IF node # None
    THEN put_server(_ring, _capacity, node, h)
    ELSE [ring |-> _ring, capacity |-> _capacity]

\* ConsistentHashing.get_request_server: a request that is None falls through
\* the `if` and the method returns None.
get_request_server(_ring, _capacity, d) ==
    IF d # NoneRequest THEN get_server(_ring, _capacity, d) ELSE None

\* ---------------------------------------------------------- object identities
\* obj tells the objects of one id apart; `is` compares <<node, obj>>.  A
\* freshly constructed node that is not stored anywhere has obj 0.
Fresh(x) == ConsistentNode(x, 0)

SlotsOf(_ring, _node) == {i \in DOMAIN _ring : Is(_ring[i], _node)}
ObjsOfId(_ring, x) == {_ring[i].obj : i \in {j \in DOMAIN _ring : _ring[j].node = x}}

\* The identity given to an object constructed to replace _node in the ring.
\* When _node sits in one slot only, that object leaves the ring and its tag
\* is free again; otherwise the smallest tag no object of the id carries.
NewObj(_ring, _node) ==
    IF Cardinality(SlotsOf(_ring, _node)) = 1
    THEN _node.obj
    ELSE CHOOSE o \in 1..(len(_ring) + 1) :
            /\ o \notin ObjsOfId(_ring, _node.node)
            /\ \A p \in 1..(o - 1) : p \in ObjsOfId(_ring, _node.node)

\* The nodes a caller can pass: an object that sits in the ring (kept from an
\* earlier put, or obtained from get_request_server or get_ring), or a
\* freshly constructed ConsistentNode(name) for a name put before, as
\* Container.stop_one and Container.remove_containers pass.
RingNodes(_ring) == {_ring[i] : i \in DOMAIN _ring} \ {None}
Args(_ring, n) == RingNodes(_ring) \cup {Fresh(x) : x \in 1..n}

\* md5 is a function of the string: a digest computed once stays.
Reveal(s, d) == md5[s] \in {Unknown, d}

\* ------------------------------------------------------------------ actions
Init ==
    /\ capacity \in 1..MaxInitCapacity
    /\ ring = NoneList(capacity)
    /\ md5 = [s \in Strs |-> Unknown]
    /\ n_put = 0
    /\ n_upd = 0
    /\ op = [name |-> "init", node |-> None, request |-> Unknown]
    /\ ret_bool = FALSE
    /\ ret_node = None
    /\ raised = FALSE

\* The node the next put inserts: ConsistentNode(name) with a name not used
\* before, as Container.create_container constructs it.
NextNode == ConsistentNode(n_put + 1, 1)

\* The ids whose soft-deleted copy sits in the ring with a digest not computed
\* yet, when put of a node with digest d grows the ring (expand_ring then
\* hashes every element of the ring); empty when that put does not grow it.
Hashed(d) ==
    LET h0 == [md5 EXCEPT ![str(NextNode)] = d]
    IN  IF NextNode.node \in Ids /\ put(ring, capacity, NextNode, h0).capacity # capacity
        THEN {x \in Ids : \E n \in RingNodes(ring) :
                  n.node = x /\ n.is_down /\ md5[str(n)] = Unknown}
        ELSE {}

\* ConsistentHashing.put(node), as one of at most max put calls.  d is the md5
\* digest of str(node); f[x] is the digest of the string of the soft-deleted
\* copy of x, for x in Hashed(d).
PutCall(d, f, max) ==
    /\ n_put < max
    /\ Reveal(str(NextNode), d)
    /\ LET h == [s \in Strs |->
                    IF s = str(NextNode) THEN d
                    ELSE IF s[2] /\ s[1] \in DOMAIN f THEN f[s[1]]
                    ELSE md5[s]]
           res == put(ring, capacity, NextNode, h)
       IN  /\ ring' = res.ring
           /\ capacity' = res.capacity
           /\ md5' = h
    /\ op' = [name |-> "put", node |-> NextNode, request |-> Unknown]
    /\ raised' = FALSE
    /\ n_put' = n_put + 1
    /\ ret_bool' = FALSE
    /\ ret_node' = None
    /\ UNCHANGED n_upd

\* ConsistentHashing.put(node) among the other calls
Put(d, f) == PutCall(d, f, MaxPuts)

\* ConsistentHashing.put(node) when nothing else is called
PutOnly(d, f) == PutCall(d, f, MaxPutsOnly)

\* ConsistentHashing.get_request_server(request); d is the md5 digest of
\* str(request).
Get(d) ==
    /\ ret_node' = get_request_server(ring, capacity, d)
    /\ op' = [name |-> "get", node |-> None, request |-> d]
    /\ raised' = FALSE
    /\ ret_bool' = FALSE
    /\ UNCHANGED <<ring, capacity, md5, n_put, n_upd>>

\* ConsistentHashing.soft_delete(node); d is the md5 digest of str(node)
SoftDelete(node, d) ==
    /\ n_upd < MaxUpdates
    /\ n_upd' = n_upd + 1
    /\ Reveal(str(node), d)
    /\ LET h == [md5 EXCEPT ![str(node)] = d]
           res == soft_delete(ring, capacity, node, NewObj(ring, node), h)
       IN  /\ ring' = res.ring
           /\ ret_bool' = res.ret
           /\ md5' = h
    /\ op' = [name |-> "soft_delete", node |-> node, request |-> Unknown]
    /\ raised' = FALSE
    /\ ret_node' = None
    /\ UNCHANGED <<capacity, n_put>>

\* Ring.delete(node), reached through get_ring()
Delete(node, d) ==
    /\ n_upd < MaxUpdates
    /\ n_upd' = n_upd + 1
    /\ Reveal(str(node), d)
    /\ LET h == [md5 EXCEPT ![str(node)] = d]
           res == delete(ring, capacity, node, h)
       IN  /\ ring' = res.ring
           /\ ret_bool' = res.ret
           /\ md5' = h
    /\ op' = [name |-> "delete", node |-> node, request |-> Unknown]
    /\ raised' = FALSE
    /\ ret_node' = None
    /\ UNCHANGED <<capacity, n_put>>

\* Ring.update(node, n_node), reached through get_ring(), where n_node is a
\* freshly constructed ConsistentNode of the same id (is_down False)
Update(node, d) ==
    /\ n_upd < MaxUpdates
    /\ n_upd' = n_upd + 1
    /\ Reveal(str(node), d)
    /\ LET h == [md5 EXCEPT ![str(node)] = d]
           n_node == ConsistentNode(node.node, NewObj(ring, node))
           res == update(ring, capacity, node, n_node, h)
       IN  /\ ring' = res.ring
           /\ ret_bool' = res.ret
           /\ md5' = h
    /\ op' = [name |-> "update", node |-> node, request |-> Unknown]
    /\ raised' = FALSE
    /\ ret_node' = None
    /\ UNCHANGED <<capacity, n_put>>

\* ConsistentHashing.put(None)
PutNone ==
    /\ LET res == put(ring, capacity, None, md5)
       IN  /\ ring' = res.ring
           /\ capacity' = res.capacity
    /\ op' = [name |-> "put_none", node |-> None, request |-> Unknown]
    /\ raised' = FALSE
    /\ ret_bool' = FALSE
    /\ ret_node' = None
    /\ UNCHANGED <<md5, n_put, n_upd>>

\* ConsistentHashing.get_request_server(None)
GetNone ==
    /\ ret_node' = get_request_server(ring, capacity, NoneRequest)
    /\ op' = [name |-> "get_none", node |-> None, request |-> NoneRequest]
    /\ raised' = FALSE
    /\ ret_bool' = FALSE
    /\ UNCHANGED <<ring, capacity, md5, n_put, n_upd>>

\* Ring.get_server(None), reached through get_ring(): find_index raises
\* before the ring is read.
GetServerNone ==
    /\ raised' = find_index_raises(NoneRequest)
    /\ ret_node' = None
    /\ op' = [name |-> "get_server_none", node |-> None, request |-> NoneRequest]
    /\ ret_bool' = FALSE
    /\ UNCHANGED <<ring, capacity, md5, n_put, n_upd>>

Next ==
    \/ \E d \in Digests : \E f \in [Hashed(d) -> Digests] : Put(d, f)
    \/ \E d \in Digests : Get(d)
    \/ \E node \in Args(ring, n_put), d \in Digests : SoftDelete(node, d)
    \/ \E node \in Args(ring, n_put), d \in Digests : Delete(node, d)
    \/ \E node \in Args(ring, n_put), d \in Digests : Update(node, d)
    \/ PutNone
    \/ GetNone
    \/ GetServerNone

Spec == Init /\ [][Next]_vars

\* Only put and soft_delete calls.
NextPutSoftDelete ==
    \/ \E d \in Digests : \E f \in [Hashed(d) -> Digests] : Put(d, f)
    \/ \E node \in Args(ring, n_put), d \in Digests : SoftDelete(node, d)

SpecPutSoftDelete == Init /\ [][NextPutSoftDelete]_vars

\* Only put calls.
NextPut == \E d \in Digests : \E f \in [Hashed(d) -> Digests] : PutOnly(d, f)

SpecPut == Init /\ [][NextPut]_vars

\* ------------------------------------------------------------------- typing
TypeOK ==
    /\ capacity \in Nat \ {0}
    /\ len(ring) >= capacity
    /\ DOMAIN ring = 0..(len(ring) - 1)
    /\ \A n \in RingNodes(ring) : ~n.is_down => md5[str(n)] # Unknown

\* ------------------------------------------------------------------- claims
IdsIn(_ring) == {_ring[i].node : i \in DOMAIN _ring} \ {0}
SlotsOfId(_ring, x) == {i \in DOMAIN _ring : _ring[i].node = x}
Healthy(_ring) == {i \in DOMAIN _ring : _ring[i] # None /\ ~_ring[i].is_down}
UpdateOps == {"update", "delete", "soft_delete"}

\* C1: after put(n) returns, for a node n whose id was not in the ring,
\* exactly one slot of the ring holds a node with n's id.
C1_PutStoresExactlyOnce ==
    op.name = "put" => Cardinality(SlotsOfId(ring, op.node.node)) = 1

\* C2: after any sequence of put calls with pairwise distinct ids the ring
\* contains at most one slot per id (checked under SpecPut).
C2_AtMostOneSlotPerId ==
    \A x \in Ids : Cardinality(SlotsOfId(ring, x)) <= 1

\* C3: whenever growth replaces the slot array, every node id that occupied a
\* slot before the growth occupies a slot of the new array after it.
C3_GrowthPreservesEntries ==
    [][capacity' # capacity => IdsIn(ring) \subseteq IdsIn(ring')]_vars

\* C4: in every ring state that contains at least one healthy node, get(key)
\* returns a node for every request key.
C4_GetReturnsNodeWhenHealthyExists ==
    (op.name = "get" /\ Healthy(ring) # {}) => ret_node # None

\* C5: get never returns a node with is_down = true as long as a healthy node
\* exists in the ring.
C5_GetExcludesDownNodes ==
    (op.name = "get" /\ Healthy(ring) # {}) => ~ret_node.is_down

\* The lookup of the claim: the first slot in the order home, home+1, ...,
\* capacity-1, 0, ..., home-1 that holds a healthy node; None when there is
\* none.
ReferenceLookup(_ring, _capacity, home) ==
    LET ks == {k \in 0..(_capacity - 1) :
                  LET n == _ring[(home + k) % _capacity]
                  IN  n # None /\ ~n.is_down}
    IN  IF ks = {}
        THEN None
        ELSE _ring[(home + (CHOOSE k \in ks : \A j \in ks : k <= j)) % _capacity]

\* C6: get(key) returns what the reference lookup returns, on every ring
\* state and key.
C6_GetAgreesWithReference ==
    op.name = "get" =>
        ret_node = ReferenceLookup(ring, capacity, op.request % capacity)

\* C7: soft_delete called with any node whose id is in the ring (a freshly
\* constructed one included) returns true, and the entries with that id have
\* is_down = true afterwards.
C7_SoftDeleteMatchesById ==
    (op.name = "soft_delete" /\ op.node.node \in IdsIn(ring)) =>
        /\ ret_bool
        /\ \A i \in SlotsOfId(ring, op.node.node) : ring[i].is_down

\* The slots whose content a step changes.
Changed == {i \in DOMAIN ring : i \notin DOMAIN ring' \/ ring'[i] # ring[i]}

\* C8: soft_delete of a node whose id is in the ring changes nothing but the
\* health flag of one entry of that id: the slot array keeps its length, at
\* most one slot changes, that slot keeps its id and holds a down node, and
\* capacity is unchanged.
C8_SoftDeleteFrame ==
    [][(op'.name = "soft_delete" /\ op'.node.node \in IdsIn(ring)) =>
          /\ DOMAIN ring' = DOMAIN ring
          /\ capacity' = capacity
          /\ Cardinality(Changed) <= 1
          /\ \A i \in Changed :
                /\ ring[i].node = op'.node.node
                /\ ring'[i].node = ring[i].node
                /\ ring'[i].is_down]_vars

\* A soft_delete that found its node and replaced a healthy entry.
C8_Witness ==
    /\ op.name = "soft_delete"
    /\ ret_bool
    /\ ~op.node.is_down
    /\ \E i \in SlotsOfId(ring, op.node.node) : ring[i].is_down
    /\ \E i \in DOMAIN ring : ring[i] # None /\ ring[i].node # op.node.node

\* C9: delete of a node that sits in the ring, at whatever slot, returns true
\* and afterwards no slot holds that node.
C9_DeleteRemovesPresentNode ==
    [][(op'.name = "delete" /\ \E i \in 0..(capacity - 1) : Is(ring[i], op'.node)) =>
          /\ ret_bool'
          /\ \A i \in DOMAIN ring' : ~Is(ring'[i], op'.node)]_vars

\* C10: update, delete and soft_delete for a node id that is not in the ring
\* return false and leave every slot and the capacity unchanged.
C10_AbsentIdIsNoOp ==
    [][(op'.name \in UpdateOps /\ op'.node.node \notin IdsIn(ring)) =>
          /\ ~ret_bool'
          /\ ring' = ring
          /\ capacity' = capacity]_vars

\* An update-type call for an id that is absent from a ring that holds other
\* nodes.
C10_Witness ==
    /\ op.name \in UpdateOps
    /\ op.node.node \notin IdsIn(ring)
    /\ ~ret_bool
    /\ IdsIn(ring) # {}

\* The home index of the node put by the step, in the array it was put into.
PutHome == find_index(md5'[str(op'.node)], len(ring))

\* C11: whenever put(n) finds no empty slot from n's home index to the end of
\* the array, the ring grows to capacity 2*old+1 and all previous ids and n's
\* id are in the ring afterwards.
C11_PutGrowsWhenRegionFull ==
    [][(op'.name = "put" /\ \A i \in PutHome..(len(ring) - 1) : ring[i] # None) =>
          /\ capacity' = 2 * capacity + 1
          /\ IdsIn(ring) \cup {op'.node.node} \subseteq IdsIn(ring')]_vars

\* The home index of a node of the ring at the current capacity.
Home(n) == find_index(md5[str(n)], capacity)

\* C12: in every state reached by put, soft_delete and growth, every occupied
\* slot i (whose node has been hashed) is reached by the probe from the
\* node's home index h: every slot of h, h+1, ... (wrapping at capacity) up
\* to i is occupied (checked under SpecPutSoftDelete).
C12_PlacementReachable ==
    \A i \in DOMAIN ring :
        (ring[i] # None /\ md5[str(ring[i])] # Unknown) =>
            /\ i < capacity
            /\ \A k \in 0..((i - Home(ring[i]) + capacity) % capacity) :
                  ring[(Home(ring[i]) + k) % capacity] # None

\* C14: between operations the length of the slot array equals capacity.
C14_ArrayLengthIsCapacity == len(ring) = capacity

\* C16: capacity never shrinks, every step that changes it sets it to
\* 2*old + 1, and only put changes it.
C16_CapacityGrowsByDoubling ==
    [][/\ capacity' >= capacity
       /\ capacity' # capacity =>
             (capacity' = 2 * capacity + 1 /\ op'.name = "put")]_vars

\* A put has grown the ring.
C16_Witness ==
    /\ op.name = "put"
    /\ capacity > MaxInitCapacity
    /\ len(ring) = capacity

\* C17: growth happens only when the ring is saturated: a put into an array
\* with an empty slot leaves capacity unchanged and every entry of the array
\* where it was.
C17_GrowthOnlyWhenSaturated ==
    [][(op'.name = "put" /\ \E i \in DOMAIN ring : ring[i] = None) =>
          /\ capacity' = capacity
          /\ \A i \in DOMAIN ring : ring[i] # None => ring'[i] = ring[i]]_vars

\* A put has appended its node and called expand_ring on an array that is not
\* saturated: the array is one longer than capacity and has an empty slot.
C17_Witness ==
    /\ op.name = "put"
    /\ len(ring) = capacity + 1
    /\ ring[len(ring) - 1] = op.node
    /\ \E i \in DOMAIN ring : ring[i] = None

\* C18: the home index of a node is determined by its id alone: the
\* soft-deleted copy of a node has the home index of the live node.
C18_HomeIndexById ==
    \A x \in Ids :
        (md5[<<x, FALSE>>] # Unknown /\ md5[<<x, TRUE>>] # Unknown) =>
            find_index(md5[<<x, FALSE>>], capacity)
                = find_index(md5[<<x, TRUE>>], capacity)

\* C19: a put that does not grow the ring leaves every occupied slot as it
\* was, and at most one slot that was empty becomes occupied.
C19_PutFrame ==
    [][(op'.name = "put" /\ capacity' = capacity) =>
          /\ \A i \in DOMAIN ring : ring[i] # None => ring'[i] = ring[i]
          /\ Cardinality({i \in DOMAIN ring :
                             ring[i] = None /\ ring'[i] # None}) <= 1]_vars

\* A put into a ring that has never grown found its home slot taken and
\* stored the node in a later slot.
C19_Witness ==
    /\ op.name = "put"
    /\ capacity <= MaxInitCapacity
    /\ capacity % 2 = 0
    /\ \E i \in DOMAIN ring :
          /\ ring[i] = op.node
          /\ i # find_index(md5[str(op.node)], len(ring))
          /\ ring[find_index(md5[str(op.node)], len(ring))] # None

\* C13: a None argument to the facade's put or get_request_server is rejected
\* with an error raised to the caller.
C13_NoneArgumentRaises ==
    op.name \in {"put_none", "get_none"} => raised

\* C15: the number of occupied slots never exceeds capacity (checked under
\* SpecPut).
C15_OccupiedAtMostCapacity ==
    Cardinality({i \in DOMAIN ring : ring[i] # None}) <= capacity
====
